---- MODULE Spec2Model ----
(***************************************************************************)
(* Model of the data-access layer of the e-commerce sales dashboard:       *)
(* components/data.py (load_data, class Data) as driven by main.py.        *)
(*                                                                         *)
(* A DataFrame is a sequence of rows; every row is a record that carries   *)
(* its pandas index label (idx) next to the columns the Data class reads.  *)
(* Python values that can be None are tagged records, floats are exact     *)
(* rationals [num, den], datetimes are proleptic Gregorian day ordinals.    *)
(***************************************************************************)
EXTENDS Integers, Sequences, FiniteSets, TLC

VARIABLES csv, readable, cache, df, filtered_df, filters, args, ret, err,
          last, ncalls, session_state

vars ==
    <<csv, readable, cache, df, filtered_df, filters, args, ret, err, last,
      ncalls, session_state>>

(***************************************************************************)
(* Bounds of the model.                                                    *)
(***************************************************************************)
\* largest number of data rows of the CSV file
MaxRows == 2
\* largest number of set_filters / apply_filters calls on one Data object
MaxCalls == 2

(***************************************************************************)
(* Python values.                                                          *)
(***************************************************************************)
None == [tag |-> "None"]
List(s) == [tag |-> "list", v |-> s]
Tuple(s) == [tag |-> "tuple", v |-> s]
Str(dd, mm, yyyy) == [tag |-> "str", dd |-> dd, mm |-> mm, yyyy |-> yyyy]
Date(yyyy, mm, dd) == [tag |-> "date", year |-> yyyy, month |-> mm, day |-> dd]
Timestamp(n) == [tag |-> "Timestamp", ord |-> n]
\* the value pandas gives an empty CSV cell, and the datetime it converts to
Blank == [tag |-> "nan"]
NaT == [tag |-> "NaT"]
\* a string that does not match the format: to_datetime raises ValueError
ParseFailure == [tag |-> "ValueError"]

\* Python truthiness of None, a list or a tuple
Truthy(x) == x.tag # "None" /\ Len(x.v) > 0

Range(s) == {s[i] : i \in 1..Len(s)}

(***************************************************************************)
(* Calendar arithmetic behind pd.to_datetime.                              *)
(***************************************************************************)
IsLeap(y) == (y % 4 = 0 /\ y % 100 # 0) \/ y % 400 = 0

LeapsBefore(y) == ((y - 1) \div 4) - ((y - 1) \div 100) + ((y - 1) \div 400)

DaysInMonth(m, y) ==
    IF m = 2 THEN (IF IsLeap(y) THEN 29 ELSE 28)
    ELSE IF m \in {4, 6, 9, 11} THEN 30 ELSE 31

RECURSIVE DaysBeforeMonth(_, _)
DaysBeforeMonth(m, y) ==
    IF m <= 1 THEN 0 ELSE DaysBeforeMonth(m - 1, y) + DaysInMonth(m - 1, y)

ValidYMD(y, m, d) == m \in 1..12 /\ d >= 1 /\ d <= DaysInMonth(m, y)

\* day number of a date, counted from 0001-01-01 = 1
Ordinal(y, m, d) ==
    (y - 1) * 365 + LeapsBefore(y) + DaysBeforeMonth(m, y) + d

\* strptime with format "%d-%m-%Y": first field day, second month, third year
Strptime(s) ==
    IF ValidYMD(s.yyyy, s.mm, s.dd)
    THEN Timestamp(Ordinal(s.yyyy, s.mm, s.dd))
    ELSE ParseFailure

\* pd.to_datetime of one value: a string is parsed, a datetime.date becomes
\* the Timestamp of its midnight, a missing value becomes NaT without an
\* error, a Timestamp or NaT is returned as it is
to_datetime(x) ==
    CASE x.tag = "str" -> Strptime(x)
      [] x.tag = "date" -> Timestamp(Ordinal(x.year, x.month, x.day))
      [] x.tag = "nan" -> NaT
      [] OTHER -> x

(***************************************************************************)
(* The CSV file.                                                           *)
(***************************************************************************)
OnTime == "Shipping on time"
Late == "Late delivery"

CsvRow(date, sales, profit, region, category, segment, status, shipping) ==
    [order_date |-> date, sales_per_order |-> sales,
     profit_per_order |-> profit, customer_region |-> region,
     category_name |-> category, customer_segment |-> segment,
     delivery_status |-> status, shipping_type |-> shipping]

\* the data rows a file is made of
RowUniverse ==
    { CsvRow(Str(31, 1, 2021), 100, 10, "East", "Furniture", "Consumer",
             OnTime, "Standard Class"),
      CsvRow(Str(1, 2, 2021), 200, -5, "West", "Technology", "Corporate",
             Late, "First Class"),
      CsvRow(Str(15, 2, 2021), 0, 0, "East", "Technology", "Corporate",
             "Shipping advance", "First Class"),
      CsvRow(Str(1, 2, 2021), -300, 20, "West", "Furniture", "Consumer",
             "Shipping canceled", "Standard Class"),
      CsvRow(Str(2, 13, 2021), 70, 7, "West", "Technology", "Consumer",
             Late, "Standard Class") }

\* three orders with revenue 100, 200, 0 and profit 10, -5, 0, one of them late
ScenarioFile ==
    << CsvRow(Str(31, 1, 2021), 100, 10, "East", "Furniture", "Consumer",
              OnTime, "Standard Class"),
       CsvRow(Str(1, 2, 2021), 200, -5, "West", "Technology", "Corporate",
              Late, "First Class"),
       CsvRow(Str(15, 2, 2021), 0, 0, "East", "Technology", "Corporate",
              "Shipping advance", "First Class") >>

CsvFiles ==
    UNION {[1..n -> RowUniverse] : n \in 0..MaxRows} \cup {ScenarioFile}

(***************************************************************************)
(* load_data                                                               *)
(***************************************************************************)
\* pd.read_csv: the rows of the file under a RangeIndex 0..n-1
read_csv(file) ==
    [i \in 1..Len(file) |->
        [idx |-> i - 1,
         order_date |-> file[i].order_date,
         sales_per_order |-> file[i].sales_per_order,
         profit_per_order |-> file[i].profit_per_order,
         customer_region |-> file[i].customer_region,
         category_name |-> file[i].category_name,
         customer_segment |-> file[i].customer_segment,
         delivery_status |-> file[i].delivery_status,
         shipping_type |-> file[i].shipping_type]]

\* df['order_date'] = pd.to_datetime(df['order_date'], format="%d-%m-%Y")
ConvertOrderDate(d) ==
    [i \in 1..Len(d) |-> [d[i] EXCEPT !.order_date = to_datetime(@)]]

\* to_datetime raises ValueError when one value does not match the format
ConvertRaises(d) ==
    \E i \in 1..Len(d) : to_datetime(d[i].order_date) = ParseFailure

\* the body of load_data on a readable file
load_data(file) == ConvertOrderDate(read_csv(file))

\* the exception the body raises, "None" when it returns: read_csv raises
\* when the file cannot be read, to_datetime when a date does not parse
load_error(ok, file) ==
    IF ~ok THEN "FileNotFoundError"
    ELSE IF ConvertRaises(read_csv(file)) THEN "ValueError" ELSE "None"

\* @st.cache_data: the entry kept for the path
NoEntry == [tag |-> "miss", value |-> <<>>]
Entry(v) == [tag |-> "hit", value |-> v]

\* variant: the function is not cached, every call reads the file
uncached_load(c, file) == load_data(file)

\* the decorated call: a kept entry is returned, as a fresh copy, without
\* running the body
cached_load(c, file) == IF c.tag = "hit" THEN c.value ELSE load_data(file)

cached_error(c, ok, file) ==
    IF c.tag = "hit" THEN "None" ELSE load_error(ok, file)

\* a call that returns stores its result, a call that raises stores nothing
cache_after(c, ok, file) ==
    IF c.tag = "miss" /\ load_error(ok, file) = "None"
    THEN Entry(load_data(file)) ELSE c

(***************************************************************************)
(* class Data                                                              *)
(***************************************************************************)
Columns ==
    <<"customer_region", "category_name", "customer_segment",
      "delivery_status", "shipping_type">>

FilterKeys == Range(Columns) \cup {"date_range"}

\* the filters dict built by __init__
NoFilters == [k \in FilterKeys |-> None]

\* variant: the dict is rebuilt from the call's arguments alone
DictReplace(d, kwargs) ==
    [k \in DOMAIN d \cup DOMAIN kwargs |->
        IF k \in DOMAIN kwargs THEN kwargs[k] ELSE None]

\* dict.update
DictUpdate(d, kwargs) ==
    [k \in DOMAIN d \cup DOMAIN kwargs |->
        IF k \in DOMAIN kwargs THEN kwargs[k] ELSE d[k]]

\* variant: the end of the interval is exclusive
DateMaskExclusive(row, start_date, end_date) ==
    /\ row.order_date.tag = "Timestamp"
    /\ row.order_date.ord >= start_date.ord
    /\ row.order_date.ord < end_date.ord

\* df[(df['order_date'] >= start_date) & (df['order_date'] <= end_date)];
\* every comparison with NaT is False
DateMask(row, start_date, end_date) ==
    /\ row.order_date.tag = "Timestamp"
    /\ row.order_date.ord >= start_date.ord
    /\ row.order_date.ord <= end_date.ord

\* the date step of apply_filters; indexing date_range[1] of a one-element
\* tuple raises IndexError
DateRaises(f) == Truthy(f["date_range"]) /\ Len(f["date_range"].v) < 2

\* variant: the selection is followed by reset_index(drop=True)
DateStepReindexed(d, f) ==
    LET date_range == f["date_range"] IN
    IF Truthy(date_range)
    THEN LET start_date == to_datetime(date_range.v[1])
             end_date == to_datetime(date_range.v[2])
             Keep(row) == DateMask(row, start_date, end_date)
             sel == SelectSeq(d, Keep)
         IN [i \in 1..Len(sel) |-> [sel[i] EXCEPT !.idx = i - 1]]
    ELSE d

DateStep(d, f) ==
    LET date_range == f["date_range"] IN
    IF Truthy(date_range)
    THEN LET start_date == to_datetime(date_range.v[1])
             end_date == to_datetime(date_range.v[2])
             Keep(row) == DateMask(row, start_date, end_date)
         IN SelectSeq(d, Keep)
    ELSE d

\* variant: the mask is negated, the listed values are excluded
IsNotIn(x, values) == \A i \in 1..Len(values.v) : values.v[i] # x

\* df[column].isin(values)
IsIn(x, values) == \E i \in 1..Len(values.v) : values.v[i] = x

\* variant: if values is not None
ColumnActiveNotNone(values) == values.tag # "None"

\* if values and len(values) > 0
ColumnActive(values) == Truthy(values) /\ Len(values.v) > 0

\* variant: a column without a selection keeps no row
ColumnStepEmptyWhenUnset(d, f, column) ==
    LET values == f[column] IN
    IF ColumnActive(values)
    THEN LET Keep(row) == IsIn(row[column], values) IN SelectSeq(d, Keep)
    ELSE <<>>

\* one iteration of the loop over the categorical columns
ColumnStep(d, f, column) ==
    LET values == f[column] IN
    IF ColumnActive(values)
    THEN LET Keep(row) == IsIn(row[column], values) IN SelectSeq(d, Keep)
    ELSE d

\* variant: the loop is left after its first iteration
ColumnLoopFirstOnly(d, f, cols) ==
    IF cols = <<>> THEN d ELSE ColumnStep(d, f, Head(cols))

\* the loop over the categorical columns, in the order of the list cols
RECURSIVE ColumnLoop(_, _, _)
ColumnLoop(d, f, cols) ==
    IF cols = <<>> THEN d
    ELSE ColumnLoop(ColumnStep(d, f, Head(cols)), f, Tail(cols))

\* apply_filters on the full frame d with the filters dict f
ApplyFilters(d, f) == ColumnLoop(DateStep(d, f), f, Columns)

\* variant: apply_filters narrows the previous view
FilterBaseIncremental == filtered_df

\* the frame apply_filters starts from: df = self.df.copy()
FilterBase == df

\* variant: apply_filters runs before the dict is updated
SetFiltersViewStale(d, f, kwargs) == ApplyFilters(d, f)

\* set_filters: the view computed after the update of the dict
SetFiltersView(d, f, kwargs) == ApplyFilters(d, DictUpdate(f, kwargs))

(***************************************************************************)
(* compute_kpis                                                            *)
(***************************************************************************)
RECURSIVE Gcd(_, _)
Gcd(a, b) == IF b = 0 THEN a ELSE Gcd(b, a % b)

Abs(a) == IF a < 0 THEN -a ELSE a

\* the exact value n/d (d # 0) in lowest terms with a positive denominator
Rat(n, d) ==
    LET g == Gcd(Abs(n), Abs(d))
        s == IF d < 0 THEN -1 ELSE 1
    IN [num |-> (s * n) \div g, den |-> (s * d) \div g]

Zero == [num |-> 0, den |-> 1]

\* numpy division: dividing by zero does not raise, it yields nan or inf
NaN == [num |-> 0, den |-> 0]

Divide(n, d) == IF d = 0 THEN NaN ELSE Rat(n, d)

Times100(q) == IF q.den = 0 THEN NaN ELSE Rat(q.num * 100, q.den)

RECURSIVE Sum(_, _)
Sum(d, column) ==
    IF d = <<>> THEN 0 ELSE Head(d)[column] + Sum(Tail(d), column)

\* (df['delivery_status'] == status).sum()
CountStatus(d, status) ==
    Cardinality({i \in 1..Len(d) : d[i].delivery_status = status})

\* variant: the KPIs are computed over the full frame
KpiFrameFull == df

\* df = self.filtered_df
KpiFrame == filtered_df

MarginGuard(total_revenue) == total_revenue > 0

\* variant: the division is not guarded
OrdersGuardOff(total_orders) == TRUE

OrdersGuard(total_orders) == total_orders > 0

\* variant: the revenue is divided by the number of all orders
AvgOrderValuePerAllOrders(total_revenue, total_orders) ==
    IF OrdersGuard(total_orders)
    THEN Divide(total_revenue, Len(df)) ELSE Zero

\* total_revenue / total_orders if total_orders > 0 else 0
AvgOrderValue(total_revenue, total_orders) ==
    IF OrdersGuard(total_orders)
    THEN Divide(total_revenue, total_orders) ELSE Zero

\* variant: orders shipped in advance count as on time too
OnTimeCountWithAdvance(d) ==
    CountStatus(d, OnTime) + CountStatus(d, "Shipping advance")

\* variant: the orders on time are counted over the full frame
OnTimeCountFull(d) == CountStatus(df, OnTime)

\* (df['delivery_status'] == 'Shipping on time').sum()
OnTimeCount(d) == CountStatus(d, OnTime)

\* variant: the late orders are counted over the full frame
LateDeliveriesFull(d) == CountStatus(df, Late)

\* (df['delivery_status'] == 'Late delivery').sum()
LateDeliveries(d) == CountStatus(d, Late)

Kpis(d) ==
    LET total_revenue == Sum(d, "sales_per_order")
        total_profit == Sum(d, "profit_per_order")
        total_orders == Len(d)
    IN [tag |-> "kpis",
        total_revenue |-> total_revenue,
        total_profit |-> total_profit,
        total_orders |-> total_orders,
        profit_margin |->
            IF MarginGuard(total_revenue)
            THEN Times100(Divide(total_profit, total_revenue)) ELSE Zero,
        avg_order_value |-> AvgOrderValue(total_revenue, total_orders),
        on_time_rate |->
            IF OrdersGuard(total_orders)
            THEN Times100(Divide(OnTimeCount(d), total_orders))
            ELSE Zero,
        late_deliveries |-> LateDeliveries(d)]

(***************************************************************************)
(* unique_values and the chart generators                                  *)
(***************************************************************************)
\* the strings of the model in the order Python's sorted() puts them
SortedStrings ==
    <<"Consumer", "Corporate", "East", "First Class", "Furniture",
      "Late delivery", "Shipping advance", "Shipping canceled",
      "Shipping on time", "Standard Class", "Technology", "West">>

\* variant: the options are taken from the view
UniqueFrameFiltered == filtered_df

\* the frame unique_values reads: self.df
UniqueFrame == df

\* sorted(self.df[column].unique())
unique_values(d, column) ==
    LET Present(x) == \E i \in 1..Len(d) : d[i][column] = x
    IN List(SelectSeq(SortedStrings, Present))

\* create_delivery_status_chart: value_counts of the view's delivery_status
DeliveryStatusChart(v) ==
    [tag |-> "figure",
     data |-> [st \in {v[i].delivery_status : i \in 1..Len(v)} |->
                  CountStatus(v, st)]]

\* .dt.dayofweek: Monday is 0; NaT has no day (written -1)
DayNum(ts) == IF ts.tag = "Timestamp" THEN (ts.ord + 6) % 7 ELSE -1

\* df_copy = self.filtered_df.copy(); df_copy['day_num'] = ...
WithDayNum(v) ==
    [i \in 1..Len(v) |-> [day_num |-> DayNum(v[i].order_date)] @@ v[i]]

\* create_day_of_week_chart: mean sales per day of the week; groupby leaves
\* out the rows without a day
DayOfWeekChart(v) ==
    LET df_copy == WithDayNum(v)
        days == {df_copy[i].day_num : i \in 1..Len(df_copy)} \ {-1}
        OfDay(n) == LET On(row) == row.day_num = n IN SelectSeq(df_copy, On)
    IN [tag |-> "figure",
        data |-> [n \in days |->
                     Divide(Sum(OfDay(n), "sales_per_order"), Len(OfDay(n)))]]

\* arithmetic on exact values with a positive denominator
Less(a, b) == a.num * b.den < b.num * a.den

Minus(a, b) == Rat(a.num * b.den - b.num * a.den, a.den * b.den)

Plus(a, b) == Rat(a.num * b.den + b.num * a.den, a.den * b.den)

\* create_profit_margin_by_category_chart: the margin of every order of a
\* copy of the view; between(-100, 100) drops the orders outside the band and
\* those whose margin is nan or inf (no sales)
ProfitMarginRows(v) ==
    LET Margin(row) ==
            Times100(Divide(row.profit_per_order, row.sales_per_order))
        Between(row) ==
            /\ row.sales_per_order # 0
            /\ -100 * Margin(row).den <= Margin(row).num
            /\ Margin(row).num <= 100 * Margin(row).den
        df_copy == SelectSeq(v, Between)
    IN [i \in 1..Len(df_copy) |->
           [profit_margin |-> Margin(df_copy[i])] @@ df_copy[i]]

ProfitMarginChart(v) ==
    [tag |-> "figure",
     data |-> [i \in 1..Len(ProfitMarginRows(v)) |->
                  [category_name |-> ProfitMarginRows(v)[i].category_name,
                   profit_margin |-> ProfitMarginRows(v)[i].profit_margin]]]

\* create_regional_radar_chart
RadarMetrics == <<"revenue", "profit", "orders", "aov", "on_time_pct">>

\* line 1062: one colour per trace
RadarColors == <<"#13957b", "#ff7f0e", "#2ca02c", "#d62728">>

\* groupby('customer_region').agg(...) with the two derived columns
RegionMetrics(v) ==
    [r \in {v[i].customer_region : i \in 1..Len(v)} |->
        LET InRegion(row) == row.customer_region = r
            g == SelectSeq(v, InRegion)
        IN [revenue |-> Rat(Sum(g, "sales_per_order"), 1),
            profit |-> Rat(Sum(g, "profit_per_order"), 1),
            orders |-> Rat(Len(g), 1),
            aov |-> Divide(Sum(g, "sales_per_order"), Len(g)),
            on_time_pct |->
                Times100(Divide(CountStatus(g, OnTime), Len(g)))]]

\* region_metrics[col].max()
MaxVal(m, col) ==
    CHOOSE x \in {m[r][col] : r \in DOMAIN m} :
        \A r \in DOMAIN m : ~Less(x, m[r][col])

\* line 1053: if max_val > 0
NormGuard(max_val) == max_val.num > 0

\* the columns f'{col}_norm' the loop of lines 1051-1055 creates
NormColumns(m) ==
    {col \in Range(RadarMetrics) :
        DOMAIN m # {} /\ NormGuard(MaxVal(m, col))}

\* region_metrics[col] / max_val * 100
Normalized(m, col, r) ==
    Rat(m[r][col].num * MaxVal(m, col).den * 100,
        m[r][col].den * MaxVal(m, col).num)

\* reading a column that was not created raises KeyError at the first trace;
\* colors[idx] raises IndexError at the fifth
RadarRaises(v) ==
    LET m == RegionMetrics(v) IN
    IF DOMAIN m # {} /\ NormColumns(m) # Range(RadarMetrics) THEN "KeyError"
    ELSE IF Cardinality(DOMAIN m) > Len(RadarColors) THEN "IndexError"
    ELSE "None"

RadarChart(v) ==
    LET m == RegionMetrics(v) IN
    [tag |-> "figure",
     data |-> [r \in DOMAIN m |->
                  [col \in Range(RadarMetrics) |-> Normalized(m, col, r)]]]

\* create_trend_decomposition_chart
\* pd.Grouper(freq='W'): the Sunday that closes the week of a day
WeekEnd(ts) == ts.ord + 6 - DayNum(ts)

\* weekly sums from the first week with an order to the last; a week without
\* orders sums to 0 and an order without a date is in no week
WeeklySales(v) ==
    LET HasDate(row) == row.order_date.tag = "Timestamp"
        rows == SelectSeq(v, HasDate)
        ends == {WeekEnd(rows[i].order_date) : i \in 1..Len(rows)}
        first == CHOOSE e \in ends : \A x \in ends : e <= x
        final == CHOOSE e \in ends : \A x \in ends : x <= e
        Of(e) == LET In(row) == WeekEnd(row.order_date) = e
                 IN SelectSeq(rows, In)
    IN IF rows = <<>> THEN <<>>
       ELSE [w \in 1..((final - first) \div 7 + 1) |->
                [order_date |-> Timestamp(first + 7 * (w - 1)),
                 sales_per_order |->
                    Sum(Of(first + 7 * (w - 1)), "sales_per_order")]]

\* rolling(window=4, ...)
TrendWindow == 4

\* variant: the window trails the week (center=False)
RollingWindowTrailing(n, i) ==
    {j \in 1..n : i - (TrendWindow - 1) <= j /\ j <= i}

\* the weeks in the window of week i with center=True: the window is moved
\* forward by (window - 1) // 2 weeks
RollingWindow(n, i) ==
    {j \in 1..n :
        /\ i + ((TrendWindow - 1) \div 2) - (TrendWindow - 1) <= j
        /\ j <= i + ((TrendWindow - 1) \div 2)}

\* min_periods=1: the mean of the weeks of the window that exist
RollingMean(weekly, i) ==
    LET win == RollingWindow(Len(weekly), i)
        InWin(j) == j \in win
        picked == SelectSeq([j \in 1..Len(weekly) |-> j], InWin)
    IN Divide(Sum([k \in 1..Len(picked) |-> weekly[picked[k]]],
                  "sales_per_order"),
              Cardinality(win))

TrendDecompositionChart(v) ==
    LET weekly == WeeklySales(v)
        sales(i) == Rat(weekly[i].sales_per_order, 1)
        trend(i) == RollingMean(weekly, i)
        seasonal(i) == Minus(sales(i), trend(i))
        residual(i) == Minus(Minus(sales(i), trend(i)), seasonal(i))
    IN [tag |-> "figure",
        data |-> [i \in 1..Len(weekly) |->
                     [order_date |-> weekly[i].order_date,
                      sales_per_order |-> sales(i),
                      trend |-> trend(i),
                      seasonal |-> seasonal(i),
                      residual |-> residual(i)]]]

\* the chart generators of the model, in the order the tabs call them
ChartOrder ==
    <<"create_profit_margin_by_category_chart",
      "create_delivery_status_chart",
      "create_regional_radar_chart",
      "create_day_of_week_chart",
      "create_trend_decomposition_chart">>

Charts == Range(ChartOrder)

Figure(g, v) ==
    CASE g = "create_profit_margin_by_category_chart" -> ProfitMarginChart(v)
      [] g = "create_delivery_status_chart" -> DeliveryStatusChart(v)
      [] g = "create_regional_radar_chart" -> RadarChart(v)
      [] g = "create_day_of_week_chart" -> DayOfWeekChart(v)
      [] g = "create_trend_decomposition_chart" -> TrendDecompositionChart(v)

\* the exception a chart generator ends with, "None" when it returns
ChartRaises(g, v) ==
    IF g = "create_regional_radar_chart" THEN RadarRaises(v) ELSE "None"

\* variant: the generators that add columns or drop rows do so on the view
\* itself instead of a copy
ChartEffectInPlace(g, d, v, f) ==
    [df |-> d,
     filtered_df |->
        CASE g = "create_profit_margin_by_category_chart" ->
                ProfitMarginRows(v)
          [] g = "create_day_of_week_chart" -> WithDayNum(v)
          [] OTHER -> v,
     filters |-> f,
     err |-> ChartRaises(g, v),
     ret |-> IF ChartRaises(g, v) = "None" THEN Figure(g, v) ELSE None]

\* the attributes of the object after a chart generator, and the figure it
\* returns: the generators read the view or work on a copy of it
ChartEffect(g, d, v, f) ==
    [df |-> d, filtered_df |-> v, filters |-> f,
     err |-> ChartRaises(g, v),
     ret |-> IF ChartRaises(g, v) = "None" THEN Figure(g, v) ELSE None]

(***************************************************************************)
(* Inputs of set_filters.                                                  *)
(***************************************************************************)
D1 == Date(2021, 1, 31)
D2 == Date(2021, 2, 1)
D3 == Date(2021, 2, 15)

DateRangeValues ==
    { None, Tuple(<<>>), Tuple(<<D2>>), Tuple(<<D1, D2>>), Tuple(<<D2, D3>>) }

FilterValues(k) ==
    CASE k = "date_range" -> DateRangeValues
      [] k = "customer_region" ->
            { None, List(<<>>), List(<<"East">>), List(<<"West">>) }
      [] k = "category_name" -> { None, List(<<"Furniture">>) }
      [] k = "customer_segment" -> { None, List(<<"Corporate">>) }
      [] k = "delivery_status" -> { None, List(<<Late>>) }
      [] k = "shipping_type" -> { None, List(<<"First Class">>) }

\* values the sidebar widgets hand over in the script's set_filters call
WidgetValues(k) ==
    CASE k = "date_range" -> { Tuple(<<D1, D2>>), Tuple(<<D2, D3>>) }
      [] k = "customer_region" -> { List(<<"East", "West">>) }
      [] k = "category_name" -> { List(<<>>), List(<<"Furniture">>) }
      [] k = "customer_segment" -> { List(<<>>) }
      [] k = "delivery_status" -> { List(<<>>) }
      [] k = "shipping_type" -> { List(<<>>) }

\* the script's call: all six keys at once
ScriptKwargs ==
    { [date_range |-> dr, customer_region |-> re, category_name |-> ca,
       customer_segment |-> se, delivery_status |-> st, shipping_type |-> sh] :
        dr \in WidgetValues("date_range"),
        re \in WidgetValues("customer_region"),
        ca \in WidgetValues("category_name"),
        se \in WidgetValues("customer_segment"),
        st \in WidgetValues("delivery_status"),
        sh \in WidgetValues("shipping_type") }

\* the keyword arguments of one set_filters call: no key, one key, or all six
\* keys as in the script
Kwargs ==
    {<<>>} \cup UNION {[{k} -> FilterValues(k)] : k \in FilterKeys}
        \cup ScriptKwargs

(***************************************************************************)
(* State machine.                                                          *)
(***************************************************************************)
\* variant: the frame is cleaned with drop_duplicates() after the load
InitDfDeduplicated(loaded) ==
    LET d == ConvertOrderDate(loaded)
        Same(a, b) == [a EXCEPT !.idx = 0] = [b EXCEPT !.idx = 0]
        First(row) ==
            \A j \in 1..Len(d) : d[j].idx < row.idx => ~Same(d[j], row)
    IN SelectSeq(d, First)

\* Data.__init__ line 52: the order_date column of self.df is converted once
\* more, after the copy for the view was taken
InitDf(loaded) == ConvertOrderDate(loaded)

\* self.filtered_df = self.df.copy()
InitView(loaded) == loaded

\* the fields of the object built by Chart(path); when load_data raises no
\* object is built
Construct(c, ok, file) ==
    IF cached_error(c, ok, file) # "None"
    THEN [df |-> <<>>, filtered_df |-> <<>>, filters |-> NoFilters,
          err |-> cached_error(c, ok, file)]
    ELSE [df |-> InitDf(cached_load(c, file)),
          filtered_df |-> InitView(cached_load(c, file)),
          filters |-> NoFilters, err |-> "None"]

\* variant: the exception is swallowed and the script goes on
RunningAlways == TRUE

\* an exception nobody catches ends the script run: no later statement of the
\* run is executed
Running == err = "None"

\* st.session_state: the value the user gave each keyed sidebar widget; None
\* while the widget still shows its default
NoSelections == [k \in FilterKeys |-> None]

\* c = Chart(path) at the top of the script, on a server with an empty cache
Init ==
    /\ csv \in CsvFiles
    /\ readable = TRUE
    /\ cache = cache_after(NoEntry, readable, csv)
    /\ df = Construct(NoEntry, readable, csv).df
    /\ filtered_df = Construct(NoEntry, readable, csv).filtered_df
    /\ filters = Construct(NoEntry, readable, csv).filters
    /\ err = Construct(NoEntry, readable, csv).err
    /\ args = <<>>
    /\ ret = None
    /\ last = "init"
    /\ ncalls = 0
    /\ session_state = NoSelections

\* the script runs again from the top and builds a new Chart object
NewRun ==
    /\ cache' = cache_after(cache, readable, csv)
    /\ df' = Construct(cache, readable, csv).df
    /\ filtered_df' = Construct(cache, readable, csv).filtered_df
    /\ filters' = Construct(cache, readable, csv).filters
    /\ err' = Construct(cache, readable, csv).err
    /\ args' = <<>>
    /\ ret' = None
    /\ last' = "init"
    /\ ncalls' = 0
    /\ UNCHANGED <<csv, readable>>

\* a rerun keeps the session state of the widgets
Rerun == NewRun /\ UNCHANGED session_state

SetFilters(kwargs) ==
    /\ Running
    /\ ncalls < MaxCalls
    /\ filters' = DictUpdate(filters, kwargs)
    /\ IF DateRaises(DictUpdate(filters, kwargs))
       THEN /\ err' = "IndexError"
            /\ UNCHANGED filtered_df
       ELSE /\ err' = "None"
            /\ filtered_df' = SetFiltersView(FilterBase, filters, kwargs)
    /\ args' = kwargs
    /\ ret' = None
    /\ last' = "set_filters"
    /\ ncalls' = ncalls + 1
    /\ UNCHANGED <<csv, readable, cache, df>>
    /\ UNCHANGED session_state

\* variant: the masks are applied to self.df itself and the result is kept
\* in both attributes
ApplyFiltersInPlace(d, v, f) ==
    [df |-> ApplyFilters(d, f), filtered_df |-> ApplyFilters(d, f),
     filters |-> f]

\* the attributes of the object after apply_filters
ApplyFiltersEffect(d, v, f) ==
    [df |-> d, filtered_df |-> ApplyFilters(FilterBase, f), filters |-> f]

ApplyFiltersCall ==
    /\ Running
    /\ ncalls < MaxCalls
    /\ df' = ApplyFiltersEffect(df, filtered_df, filters).df
    /\ filtered_df' = ApplyFiltersEffect(df, filtered_df, filters).filtered_df
    /\ filters' = ApplyFiltersEffect(df, filtered_df, filters).filters
    /\ args' = <<>>
    /\ ret' = None
    /\ last' = "apply_filters"
    /\ ncalls' = ncalls + 1
    /\ UNCHANGED <<csv, readable, cache, err>>
    /\ UNCHANGED session_state

\* variant: canceled orders are dropped from the stored view before the KPIs
\* are computed
ComputeKpisDropsCanceled(d, v, f) ==
    LET Kept(row) == row.delivery_status # "Shipping canceled" IN
    [df |-> d, filtered_df |-> SelectSeq(v, Kept), filters |-> f,
     ret |-> Kpis(SelectSeq(v, Kept))]

\* the attributes of the object after compute_kpis, and the returned tuple
ComputeKpisEffect(d, v, f) ==
    [df |-> d, filtered_df |-> v, filters |-> f, ret |-> Kpis(KpiFrame)]

ComputeKpis ==
    /\ Running
    /\ df' = ComputeKpisEffect(df, filtered_df, filters).df
    /\ filtered_df' = ComputeKpisEffect(df, filtered_df, filters).filtered_df
    /\ filters' = ComputeKpisEffect(df, filtered_df, filters).filters
    /\ ret' = ComputeKpisEffect(df, filtered_df, filters).ret
    /\ args' = <<>>
    /\ last' = "compute_kpis"
    /\ UNCHANGED <<csv, readable, cache, err, ncalls>>
    /\ UNCHANGED session_state

Next ==
    \/ \E kwargs \in Kwargs : SetFilters(kwargs)
    \/ ApplyFiltersCall
    \/ ComputeKpis
    \/ Rerun

Spec == Init /\ [][Next]_vars

(***************************************************************************)
(* The script as the server runs it: the file may change between two runs, *)
(* set_filters gets the six widget values, the multiselect options come    *)
(* from unique_values and the tabs call the chart generators.              *)
(***************************************************************************)
\* the rows the file of this specification is made of: two orders, an order
\* whose date cell is empty and an order whose date does not parse
ScriptRows ==
    { ScenarioFile[1], ScenarioFile[2],
      CsvRow(Blank, 40, 4, "East", "Technology", "Consumer", OnTime,
             "First Class"),
      CsvRow(Str(2, 13, 2021), 70, 7, "West", "Technology", "Consumer",
             Late, "Standard Class") }

ScriptFiles == UNION {[1..n -> ScriptRows] : n \in 0..MaxRows}

InitScript ==
    /\ \/ readable = TRUE /\ csv \in ScriptFiles
       \/ readable = FALSE /\ csv = <<>>
    /\ cache = cache_after(NoEntry, readable, csv)
    /\ df = Construct(NoEntry, readable, csv).df
    /\ filtered_df = Construct(NoEntry, readable, csv).filtered_df
    /\ filters = Construct(NoEntry, readable, csv).filters
    /\ err = Construct(NoEntry, readable, csv).err
    /\ args = <<>>
    /\ ret = None
    /\ last = "init"
    /\ ncalls = 0
    /\ session_state = NoSelections

UniqueValues(column) ==
    /\ Running
    /\ ret' = unique_values(UniqueFrame, column)
    /\ args' = [column |-> column]
    /\ last' = "unique_values"
    /\ UNCHANGED <<csv, readable, cache, df, filtered_df, filters, err, ncalls>>
    /\ UNCHANGED session_state

CreateChart(g) ==
    /\ Running
    /\ df' = ChartEffect(g, df, filtered_df, filters).df
    /\ filtered_df' = ChartEffect(g, df, filtered_df, filters).filtered_df
    /\ filters' = ChartEffect(g, df, filtered_df, filters).filters
    /\ ret' = ChartEffect(g, df, filtered_df, filters).ret
    /\ err' = ChartEffect(g, df, filtered_df, filters).err
    /\ args' = <<>>
    /\ last' = g
    /\ UNCHANGED <<csv, readable, cache, ncalls>>
    /\ UNCHANGED session_state

\* a line is added to the file on disk
AppendRow(r) ==
    /\ readable
    /\ Len(csv) < MaxRows
    /\ csv' = Append(csv, r)
    /\ UNCHANGED <<readable, cache, df, filtered_df, filters, args, ret, err,
                   last, ncalls, session_state>>

\* the file is removed from disk
DeleteFile ==
    /\ readable
    /\ readable' = FALSE
    /\ csv' = <<>>
    /\ UNCHANGED <<cache, df, filtered_df, filters, args, ret, err, last,
                   ncalls, session_state>>

NextScript ==
    \/ \E kwargs \in ScriptKwargs : SetFilters(kwargs)
    \/ ApplyFiltersCall
    \/ ComputeKpis
    \/ \E column \in Range(Columns) : UniqueValues(column)
    \/ \E g \in Charts : CreateChart(g)
    \/ \E r \in ScriptRows : AppendRow(r)
    \/ DeleteFile
    \/ Rerun

SpecScript == InitScript /\ [][NextScript]_vars

(***************************************************************************)
(* One run of main.py, statement by statement: Chart(path), the sidebar    *)
(* widgets, the reset button, set_filters with the six widget values,      *)
(* compute_kpis and the tabs.  The user changes a widget between runs, and *)
(* every change starts a new run.                                          *)
(***************************************************************************)
\* the days the orders of the model fall on, as datetime.date values
PickerCalendar == {D1, D2, D3}

\* Timestamp -> datetime.date, as st.date_input converts its bounds
ToDate(ts) ==
    CHOOSE x \in PickerCalendar : Ordinal(x.year, x.month, x.day) = ts.ord

\* c.df['order_date'].min() and .max(): missing dates are skipped
OrderDays(d) ==
    {d[i].order_date.ord :
        i \in {j \in 1..Len(d) : d[j].order_date.tag = "Timestamp"}}

min_date(d) ==
    Timestamp(CHOOSE n \in OrderDays(d) : \A x \in OrderDays(d) : n <= x)

max_date(d) ==
    Timestamp(CHOOSE n \in OrderDays(d) : \A x \in OrderDays(d) : x <= n)

\* value= of the date picker and default= of the five multiselects
WidgetDefault(d, k) ==
    IF k = "date_range"
    THEN Tuple(<<ToDate(min_date(d)), ToDate(max_date(d))>>)
    ELSE unique_values(d, k)

\* what the user can set a widget to: no date, a start date alone or an
\* interval between min_value and max_value; a part of the options
WidgetChoices(d, k) ==
    IF k = "date_range"
    THEN LET days == {x \in PickerCalendar :
                        /\ min_date(d).ord <= Ordinal(x.year, x.month, x.day)
                        /\ Ordinal(x.year, x.month, x.day) <= max_date(d).ord}
             Before(a, b) ==
                Ordinal(a.year, a.month, a.day)
                    <= Ordinal(b.year, b.month, b.day)
         IN ({Tuple(<<>>)} \cup {Tuple(<<a>>) : a \in days}
                \cup {Tuple(<<p[1], p[2]>>) :
                        p \in {q \in days \X days : Before(q[1], q[2])}})
            \ {WidgetDefault(d, k)}
    ELSE LET options == unique_values(d, k).v IN
         {List(LET Picked(x) == x \in S IN SelectSeq(options, Picked)) :
            S \in (SUBSET Range(options)) \ {Range(options)}}

\* the widgets the user of the model operates
OperatedWidgets == {"date_range", "customer_region", "category_name"}

\* the value a widget returns in a run
WidgetValue(d, ss, k) ==
    IF ss[k].tag = "None" THEN WidgetDefault(d, k) ELSE ss[k]

\* lines 114-121: the keyword arguments of the set_filters call
WidgetKwargs(d, ss) == [k \in FilterKeys |-> WidgetValue(d, ss, k)]

\* variant: the filters are set once more between two tabs
ScriptRefilters ==
    <<"init", "unique_values", "set_filters", "compute_kpis",
      ChartOrder[1], "set_filters">> \o Tail(ChartOrder)

\* the statements of the script in the order they run
Script ==
    <<"init", "unique_values", "set_filters", "compute_kpis">> \o ChartOrder

\* the run has just executed the statement before step
At(step) ==
    \E i \in 1..(Len(Script) - 1) : Script[i] = last /\ Script[i + 1] = step

\* the rows of the file of this specification: those of the script
\* specification and the order shipped in advance that brought no revenue
PassRows == ScriptRows \cup {ScenarioFile[3]}

\* the file holds an order with a date: the date picker is built from the
\* first and the last order date
PassFiles ==
    {f \in UNION {[1..n -> PassRows] : n \in 1..MaxRows} :
        \E i \in 1..Len(f) : f[i].order_date.tag = "str"}

InitPass ==
    /\ csv \in PassFiles
    /\ readable = TRUE
    /\ cache = cache_after(NoEntry, readable, csv)
    /\ df = Construct(NoEntry, readable, csv).df
    /\ filtered_df = Construct(NoEntry, readable, csv).filtered_df
    /\ filters = Construct(NoEntry, readable, csv).filters
    /\ err = Construct(NoEntry, readable, csv).err
    /\ args = <<>>
    /\ ret = None
    /\ last = "init"
    /\ ncalls = 0
    /\ session_state = NoSelections

\* lines 56-109: the widgets are built; the last call is the one for the
\* options of the shipping type
Sidebar == At("unique_values") /\ UniqueValues("shipping_type")

\* lines 111-112: the handler of the reset button is st.rerun() and nothing
\* else, so the session state is what it was
ResetEffect(ss) == ss

\* the button was clicked: the run stops at st.rerun()
ResetButton ==
    /\ Running
    /\ last = "unique_values"
    /\ session_state' = ResetEffect(session_state)
    /\ last' = "st.rerun"
    /\ UNCHANGED <<csv, readable, cache, df, filtered_df, filters, args, ret,
                   err, ncalls>>

PassSetFilters ==
    /\ At("set_filters")
    /\ SetFilters(WidgetKwargs(df, session_state))

PassKpis == At("compute_kpis") /\ ComputeKpis

PassChart(g) == At(g) /\ CreateChart(g)

\* the sidebar of the run is on the page
Rendered ==
    /\ err \notin {"ValueError", "FileNotFoundError"}
    /\ last \notin {"init", "st.rerun"}

\* the user changes a widget of the rendered sidebar (None: back to the
\* default value); the change starts a new run
Select(k, v) ==
    /\ Rendered
    /\ v \in WidgetChoices(df, k) \cup {None}
    /\ v # session_state[k]
    /\ session_state' = [session_state EXCEPT ![k] = v]
    /\ NewRun

NextPass ==
    \/ Sidebar
    \/ ResetButton
    \/ PassSetFilters
    \/ PassKpis
    \/ \E g \in Charts : PassChart(g)
    \/ /\ Rendered
       /\ \E k \in OperatedWidgets :
             \E v \in WidgetChoices(df, k) \cup {None} : Select(k, v)
    \/ Rerun

SpecPass == InitPass /\ [][NextPass]_vars

(***************************************************************************)
(* Vocabulary of the properties.                                           *)
(***************************************************************************)
\* the Data object exists and its last call returned
Alive == err = "None"

AllUnset == \A k \in FilterKeys : filters[k] = None

\* the date_range entry holds an interval (start, end)
DateSet(f) == f["date_range"].tag = "tuple" /\ Len(f["date_range"].v) = 2

DayOf(date) == Ordinal(date.year, date.month, date.day)

InInterval(row, f) ==
    /\ DayOf(f["date_range"].v[1]) <= row.order_date.ord
    /\ row.order_date.ord <= DayOf(f["date_range"].v[2])

\* the entry of column c holds a non-empty collection
Restricts(f, c) == f[c].tag = "list" /\ f[c].v # <<>>

Member(row, f, c) == row[c] \in Range(f[c].v)

CategoricalOk(row, f) ==
    \A c \in Range(Columns) : Restricts(f, c) => Member(row, f, c)

Satisfies(row, f) == (DateSet(f) => InInterval(row, f)) /\ CategoricalOk(row, f)

SatisfyingRows(d, f) == LET Sat(row) == Satisfies(row, f) IN SelectSeq(d, Sat)

Rotated(k) ==
    [i \in 1..Len(Columns) |-> Columns[((i + k - 1) % Len(Columns)) + 1]]

Reversed == [i \in 1..Len(Columns) |-> Columns[Len(Columns) + 1 - i]]

ColumnOrders == {Rotated(k) : k \in 0..(Len(Columns) - 1)} \cup {Reversed}

(***************************************************************************)
(* C1  After any sequence of set_filters calls the Filtered View is the    *)
(* result of applying the current Filter Set to the full record set from   *)
(* scratch; earlier Filter Sets and the previous view leave no trace.      *)
(***************************************************************************)
C1_ViewFromScratch == Alive => filtered_df = ApplyFilters(df, filters)

\* region East was replaced by region West: exactly the West rows are shown
C1_Witness ==
    /\ Alive /\ last = "set_filters" /\ ncalls >= 2
    /\ "customer_region" \in DOMAIN args
    /\ filters["customer_region"] = List(<<"West">>)
    /\ \E i \in 1..Len(df) : df[i].customer_region = "East"
    /\ filtered_df # <<>>
    /\ \A i \in 1..Len(filtered_df) : filtered_df[i].customer_region = "West"

(***************************************************************************)
(* C2  set_filters(update) sets every key named in update to the supplied  *)
(* value and leaves every other key of the Filter Set as it was.           *)
(***************************************************************************)
C2_SetFiltersMerges ==
    [][last' = "set_filters" =>
        \A k \in FilterKeys :
            filters'[k] = IF k \in DOMAIN args' THEN args'[k] ELSE filters[k]]_vars

\* a key was set while another key kept a selection made by an earlier call
C2_Witness ==
    /\ last = "set_filters"
    /\ \E k \in DOMAIN args : \E j \in FilterKeys \ DOMAIN args :
          /\ filters[k] = args[k] /\ filters[k] # None
          /\ filters[j] # None

(***************************************************************************)
(* C3  Every row of the Filtered View is a row of the full record set:     *)
(* filtering adds no row and alters none.                                  *)
(***************************************************************************)
C3_ViewSubsetOfFull ==
    \A i \in 1..Len(filtered_df) : filtered_df[i] \in Range(df)

\* a filter removed some rows and kept others
C3_Witness ==
    /\ Alive /\ last = "set_filters"
    /\ filtered_df # <<>> /\ Len(filtered_df) < Len(df)
    /\ filtered_df[1].idx > 0

(***************************************************************************)
(* C4  Filters combine as a conjunction: a record is in the Filtered View  *)
(* iff it satisfies the date predicate (when set) and the membership       *)
(* predicate of every categorical dimension holding a non-empty set; the   *)
(* order in which the dimensions are applied does not matter.              *)
(***************************************************************************)
C4_Conjunction ==
    Alive =>
        /\ filtered_df = SatisfyingRows(df, filters)
        /\ \A cols \in ColumnOrders :
              /\ ColumnLoop(DateStep(df, filters), filters, cols) = filtered_df
              /\ DateStep(ColumnLoop(df, filters, cols), filters) = filtered_df

\* the date range and two categorical dimensions are active together
C4_Witness ==
    /\ Alive /\ last = "set_filters" /\ DateSet(filters)
    /\ Cardinality({c \in Range(Columns) : Restricts(filters, c)}) >= 2
    /\ filtered_df # <<>> /\ Len(filtered_df) < Len(df)

(***************************************************************************)
(* C5  With date_range = (start, end) the view keeps exactly the records   *)
(* with start <= order_date <= end (among those the other filters keep):   *)
(* records dated on start or on end stay, records outside are removed.     *)
(***************************************************************************)
C5_DateRangeInclusive ==
    (Alive /\ DateSet(filters)) =>
        /\ \A i \in 1..Len(filtered_df) : InInterval(filtered_df[i], filters)
        /\ \A i \in 1..Len(df) :
              (InInterval(df[i], filters) /\ CategoricalOk(df[i], filters))
                  => df[i] \in Range(filtered_df)

\* a record dated on the end of the interval is kept, one after it is removed
C5_Witness ==
    /\ Alive /\ last = "set_filters" /\ DateSet(filters)
    /\ DayOf(filters["date_range"].v[1]) < DayOf(filters["date_range"].v[2])
    /\ \E i \in 1..Len(filtered_df) :
          filtered_df[i].order_date.ord = DayOf(filters["date_range"].v[2])
    /\ \E i \in 1..Len(df) :
          df[i].order_date.ord > DayOf(filters["date_range"].v[2])

(***************************************************************************)
(* C6  For each categorical key an empty collection gives the same view    *)
(* as None: the dimension is not filtered, the view is not emptied.        *)
(***************************************************************************)
C6_EmptyEqualsNone ==
    Alive =>
        \A c \in Range(Columns) :
            filters[c] = List(<<>>) =>
                filtered_df = ApplyFilters(df, [filters EXCEPT ![c] = None])

\* a key was set to the empty list and rows are still shown
C6_Witness ==
    /\ Alive /\ last = "set_filters"
    /\ \E c \in DOMAIN args : c # "date_range" /\ filters[c] = List(<<>>)
    /\ \E c \in Range(Columns) : Restricts(filters, c)
    /\ filtered_df # <<>>

(***************************************************************************)
(* C7  Filtering is idempotent: a second apply_filters (or a set_filters   *)
(* that leaves the Filter Set as it is) with no filter change in between   *)
(* leaves the Filtered View as the first call produced it.                 *)
(***************************************************************************)
C7_Idempotent ==
    [][(/\ last \in {"set_filters", "apply_filters"}
        /\ err = "None" /\ err' = "None"
        /\ last' \in {"set_filters", "apply_filters"}
        /\ filters' = filters)
          => filtered_df' = filtered_df]_vars

\* apply_filters was called again on a Filter Set that removes rows
C7_Witness ==
    /\ Alive /\ last = "apply_filters" /\ ncalls >= 2
    /\ ~AllUnset /\ Len(filtered_df) < Len(df)

(***************************************************************************)
(* C8  With every filter unset the Filtered View is the full record set    *)
(* and compute_kpis returns the KPIs of the full dataset.                  *)
(***************************************************************************)
C8_UnsetShowsAll ==
    (Alive /\ AllUnset) =>
        /\ filtered_df = df
        /\ last = "compute_kpis" => ret = Kpis(df)

\* filters were set and unset again before the KPIs were computed
C8_Witness ==
    /\ Alive /\ AllUnset /\ last = "compute_kpis" /\ ncalls >= 2
    /\ Len(df) > 1 /\ ret.total_orders = Len(df)

(***************************************************************************)
(* C9  compute_kpis returns profit margin 100 * total_profit /             *)
(* total_revenue whenever the total revenue of the view is not 0 (negative *)
(* totals included), and 0 when it is 0.                                   *)
(***************************************************************************)
C9_ProfitMargin ==
    (Alive /\ last = "compute_kpis") =>
        LET total_revenue == Sum(filtered_df, "sales_per_order")
            total_profit == Sum(filtered_df, "profit_per_order")
        IN IF total_revenue # 0
           THEN ret.profit_margin = Rat(100 * total_profit, total_revenue)
           ELSE ret.profit_margin = Zero

(***************************************************************************)
(* C10  On a Filtered View of 0 rows compute_kpis returns without raising; *)
(* profit margin, average order value and on-time rate are 0, and so are   *)
(* total revenue, total profit, order count and late-delivery count.       *)
(***************************************************************************)
C10_EmptyViewKpis ==
    (last = "compute_kpis" /\ filtered_df = <<>>) =>
        /\ err = "None"
        /\ ret.profit_margin = Zero
        /\ ret.avg_order_value = Zero
        /\ ret.on_time_rate = Zero
        /\ ret.total_revenue = 0
        /\ ret.total_profit = 0
        /\ ret.total_orders = 0
        /\ ret.late_deliveries = 0

\* the filters removed every row of a non-empty dataset
C10_Witness ==
    /\ last = "compute_kpis" /\ filtered_df = <<>> /\ df # <<>>
    /\ ret.tag = "kpis"

(***************************************************************************)
(* Vocabulary of the KPI properties.                                       *)
(***************************************************************************)
RECURSIVE TotalTo(_, _, _)
TotalTo(d, column, n) ==
    IF n = 0 THEN 0 ELSE TotalTo(d, column, n - 1) + d[n][column]

\* the sum of a column over the rows of the full record set that satisfy
\* the Filter Set
TotalKept(column) ==
    LET kept == SatisfyingRows(df, filters) IN TotalTo(kept, column, Len(kept))

KeptWithStatus(status) ==
    {i \in 1..Len(df) :
        df[i].delivery_status = status /\ Satisfies(df[i], filters)}

Computed == Alive /\ last = "compute_kpis"

LoadErrors == {"ValueError", "FileNotFoundError"}

(***************************************************************************)
(* C11  compute_kpis returns total revenue, total profit and order count   *)
(* over the rows of the current Filtered View only; rows the filters       *)
(* exclude contribute nothing.                                             *)
(***************************************************************************)
C11_TotalsOverView ==
    Computed =>
        /\ ret.total_revenue = TotalKept("sales_per_order")
        /\ ret.total_profit = TotalKept("profit_per_order")
        /\ ret.total_orders = Len(SatisfyingRows(df, filters))

\* the three-order dataset, date-filtered to leave out the zero-revenue order
C11_Witness ==
    /\ Computed /\ csv = ScenarioFile /\ DateSet(filters)
    /\ Len(filtered_df) = 2
    /\ \A i \in 1..Len(filtered_df) : filtered_df[i].sales_per_order # 0
    /\ ret.total_revenue = 300 /\ ret.total_profit = 5
    /\ ret.total_orders = 2
    /\ ret.avg_order_value = [num |-> 150, den |-> 1]

(***************************************************************************)
(* C12  compute_kpis returns average order value total_revenue /           *)
(* total_orders of the Filtered View when the view has a row, 0 otherwise. *)
(***************************************************************************)
C12_AvgOrderValue ==
    Computed =>
        ret.avg_order_value =
            IF Len(filtered_df) > 0
            THEN Rat(TotalTo(filtered_df, "sales_per_order", Len(filtered_df)),
                     Len(filtered_df))
            ELSE Zero

\* a filtered, non-empty view with a non-zero average
C12_Witness ==
    /\ Computed /\ filtered_df # <<>> /\ Len(filtered_df) < Len(df)
    /\ ret.avg_order_value.num # 0

(***************************************************************************)
(* C13  compute_kpis returns on-time rate 100 * (rows of the view with the *)
(* on-time status) / (rows of the view); rows of any other status count in *)
(* the denominator only.                                                   *)
(***************************************************************************)
C13_OnTimeRate ==
    (Computed /\ filtered_df # <<>>) =>
        ret.on_time_rate =
            Rat(100 * Cardinality({i \in 1..Len(filtered_df) :
                                    filtered_df[i].delivery_status = OnTime}),
                Len(filtered_df))

\* one order on time and one shipped in advance or canceled: 50 percent
C13_Witness ==
    /\ Computed /\ Len(filtered_df) = 2
    /\ \E i \in 1..2 : filtered_df[i].delivery_status = OnTime
    /\ \E i \in 1..2 :
          filtered_df[i].delivery_status
              \in {"Shipping advance", "Shipping canceled"}
    /\ ret.on_time_rate = [num |-> 50, den |-> 1]

(***************************************************************************)
(* C14  The late-delivery KPI is the raw count of late rows in the current *)
(* Filtered View; a late record removed by a filter is not counted.        *)
(***************************************************************************)
C14_LateDeliveries ==
    Computed => ret.late_deliveries = Cardinality(KeptWithStatus(Late))

\* the only late order of the dataset is filtered out
C14_Witness ==
    /\ Computed /\ filtered_df # <<>>
    /\ \E i \in 1..Len(df) : df[i].delivery_status = Late
    /\ KeptWithStatus(Late) = {}
    /\ ret.late_deliveries = 0

(***************************************************************************)
(* C15  The full record set of a Data object is never changed after the    *)
(* load: after any sequence of calls it holds exactly the loaded records.  *)
(***************************************************************************)
C15_FullSetImmutable ==
    Alive => (cache.tag = "hit" /\ df = cache.value)

\* a chart was drawn from a filtered view of a dataset of several orders
C15_Witness ==
    /\ Alive /\ last \in Charts /\ ncalls >= 1
    /\ Len(df) >= 2 /\ filtered_df # <<>> /\ Len(filtered_df) < Len(df)

(***************************************************************************)
(* C16  apply_filters changes only the stored Filtered View: the Filter    *)
(* Set and the full record set are the same after the call as before.      *)
(***************************************************************************)
C16_ApplyFiltersFrame ==
    [][last' = "apply_filters" =>
        (filters' = filters /\ df' = df /\ cache' = cache /\ csv' = csv)]_vars

\* apply_filters ran on a Filter Set that keeps some rows and removes others
C16_Witness ==
    /\ Alive /\ last = "apply_filters" /\ ~AllUnset
    /\ filtered_df # <<>> /\ Len(filtered_df) < Len(df)

(***************************************************************************)
(* C17  compute_kpis keeps no state: the Filter Set, the Filtered View and *)
(* the full record set are unchanged, and two calls with no filter change  *)
(* in between return the same values.                                      *)
(***************************************************************************)
C17_ComputeKpisPure ==
    [][last' = "compute_kpis" =>
        /\ filters' = filters /\ filtered_df' = filtered_df /\ df' = df
        /\ last = "compute_kpis" => ret' = ret]_vars

\* the KPIs of a filtered view that holds a canceled order
C17_Witness ==
    /\ Computed /\ ~AllUnset
    /\ \E i \in 1..Len(filtered_df) :
          filtered_df[i].delivery_status = "Shipping canceled"
    /\ ret.total_orders = Len(filtered_df)

(***************************************************************************)
(* C18  Loading the same path twice returns an identical record set: the   *)
(* second load is served from the cache, whatever happened to the file or  *)
(* to the first Data object in between.                                    *)
(***************************************************************************)
C18_CachedLoad ==
    [][(cache.tag = "hit" /\ Alive /\ last' = "init") =>
        /\ err' = "None" /\ cache' = cache
        /\ df' = df /\ filtered_df' = df /\ filters' = NoFilters]_vars

\* a run starts on a loaded path whose file has since grown
C18_Witness ==
    /\ Alive /\ last = "init" /\ cache.tag = "hit"
    /\ readable /\ Len(csv) > Len(cache.value)
    /\ df = cache.value

(***************************************************************************)
(* C19  load_data fails, and returns no record set, when the file cannot   *)
(* be read or an order_date value does not match DD-MM-YYYY; a record set  *)
(* it returns never holds an unparsed date.                                *)
(***************************************************************************)
C19_LoadRejectsBadDates ==
    /\ (cache.tag = "miss" /\ last = "init") => err \in LoadErrors
    /\ cache.tag = "hit" =>
          \A i \in 1..Len(cache.value) :
              cache.value[i].order_date.tag = "Timestamp"

(***************************************************************************)
(* C20  A load failure is fatal for the run: no filter is applied, no KPI  *)
(* is computed and no chart is drawn in it, and there is no fallback       *)
(* dataset.                                                                *)
(***************************************************************************)
C20_LoadFailureFatal ==
    err \in LoadErrors =>
        /\ last = "init" /\ ncalls = 0
        /\ ret = None /\ args = <<>>
        /\ filters = NoFilters
        /\ df = <<>> /\ filtered_df = <<>>
        /\ cache.tag = "miss"

\* the run stopped on a file whose date does not parse
C20_Witness ==
    /\ err = "ValueError" /\ last = "init" /\ readable /\ csv # <<>>

(***************************************************************************)
(* Vocabulary of the properties of a run of the script.                    *)
(***************************************************************************)
\* the statements of a run that come after the filters were set
AfterFilter == {"set_filters", "compute_kpis"} \cup Charts

Categorical == Range(Columns)

(***************************************************************************)
(* C21  A run is one linear pass: set_filters is called once, right after  *)
(* the sidebar, compute_kpis follows it and the chart generators follow    *)
(* compute_kpis; from set_filters on neither the Filter Set nor the        *)
(* Filtered View changes, so the KPIs and the charts of a run are derived  *)
(* from the same view.                                                     *)
(***************************************************************************)
C21_LinearPass ==
    [][/\ last' = "set_filters" => last = "unique_values"
       /\ last' = "compute_kpis" => last = "set_filters"
       /\ last' \in Charts => last \in {"compute_kpis"} \cup Charts
       /\ (last \in AfterFilter /\ last' \in AfterFilter) =>
             (filters' = filters /\ filtered_df' = filtered_df)]_vars

\* the last tab of a run was drawn from a view narrowed by a selection
C21_Witness ==
    /\ Alive /\ last = ChartOrder[Len(ChartOrder)]
    /\ session_state # NoSelections
    /\ filtered_df # <<>> /\ Len(filtered_df) < Len(df)
    /\ filtered_df = ApplyFilters(df, WidgetKwargs(df, session_state))

(***************************************************************************)
(* C22  The reset action restores every filter control to its default, so  *)
(* that the run that follows a reset filters by the default values         *)
(* whatever was selected before.                                           *)
(***************************************************************************)
C22_ResetRestoresDefaults ==
    last = "st.rerun" =>
        /\ \A k \in FilterKeys :
              WidgetValue(df, session_state, k) = WidgetDefault(df, k)
        /\ ApplyFilters(df, WidgetKwargs(df, session_state))
              = ApplyFilters(df, WidgetKwargs(df, NoSelections))

(***************************************************************************)
(* C23  set_filters completes and produces a Filtered View for every       *)
(* date_range value the date picker can deliver, a single date and an      *)
(* empty value included.                                                   *)
(***************************************************************************)
C23_SetFiltersCompletes ==
    last = "set_filters" =>
        /\ err = "None"
        /\ filtered_df = ApplyFilters(df, filters)

(***************************************************************************)
(* C24  With the default values of the controls (first to last order date, *)
(* all values of every multiselect) the Filtered View is the full record   *)
(* set: no record is dropped.                                              *)
(***************************************************************************)
C24_DefaultsShowAll ==
    (last = "set_filters" /\ session_state = NoSelections) =>
        filtered_df = df

\* the collections of options of a column that hold every value of S
Superlists(c, S) ==
    {L \in WidgetChoices(df, c) \cup {WidgetDefault(df, c)} :
        Range(S.v) \subseteq Range(L.v)}

\* the view for the Filter Set is within the view for every larger
\* collection on column c
MonotoneIn(c) ==
    \A L \in Superlists(c, filters[c]) :
        Range(filtered_df)
            \subseteq Range(ApplyFilters(df, [filters EXCEPT ![c] = L]))

(***************************************************************************)
(* C25  As stated: the Filtered View is monotone in each categorical       *)
(* filter, the empty collection included: for collections S and S' on one  *)
(* column with S a subset of S', the view for S is a subset of the view    *)
(* for S'.                                                                 *)
(***************************************************************************)
C25_Monotone ==
    (Alive /\ last = "set_filters") =>
        \A c \in Categorical : filters[c].tag = "list" => MonotoneIn(c)

(***************************************************************************)
(* C25, amended  The Filtered View is monotone in each categorical filter  *)
(* for non-empty collections: for S and S' on one column with S non-empty  *)
(* and a subset of S', the view for S is a subset of the view for S'.  The *)
(* empty collection selects every record.                                  *)
(***************************************************************************)
C25_MonotoneNonEmpty ==
    (Alive /\ last = "set_filters") =>
        \A c \in Categorical :
            (filters[c].tag = "list" /\ filters[c].v # <<>>) => MonotoneIn(c)

\* a selection of one region whose view grows when a second region is added
C25_Witness ==
    /\ Alive /\ last = "set_filters"
    /\ \E c \in Categorical :
          /\ filters[c].tag = "list" /\ filters[c].v # <<>>
          /\ \E L \in Superlists(c, filters[c]) :
                /\ filtered_df # <<>>
                /\ Range(filtered_df)
                      # Range(ApplyFilters(df, [filters EXCEPT ![c] = L]))

\* the place of a string in the order of sorted()
Place(x) == CHOOSE i \in 1..Len(SortedStrings) : SortedStrings[i] = x

(***************************************************************************)
(* C26  unique_values(column) is computed from the full record set: its    *)
(* result holds exactly the values of the column in the full set, sorted   *)
(* and without duplicates, whatever the Filter Set and the view are.       *)
(***************************************************************************)
C26_UniqueValuesFromFull ==
    (Alive /\ last = "unique_values") =>
        /\ ret.tag = "list"
        /\ Range(ret.v) = {df[i][args.column] : i \in 1..Len(df)}
        /\ \A i \in 1..Len(ret.v) : \A j \in 1..Len(ret.v) :
              i < j => Place(ret.v[i]) < Place(ret.v[j])

\* the options hold a value no record of the current view has
C26_Witness ==
    /\ Alive /\ last = "unique_values" /\ ~AllUnset
    /\ Len(ret.v) >= 2
    /\ \E x \in Range(ret.v) :
          \A i \in 1..Len(filtered_df) : filtered_df[i][args.column] # x

(***************************************************************************)
(* C27  No chart generator changes the Filtered View or the Filter Set:    *)
(* the view has the same rows and columns after the call, the figure       *)
(* depends on the view alone, and compute_kpis gives the same values       *)
(* before and after.                                                       *)
(***************************************************************************)
C27_ChartsKeepView ==
    [][last' \in Charts =>
        /\ filtered_df' = filtered_df /\ filters' = filters /\ df' = df
        /\ Kpis(filtered_df') = Kpis(filtered_df)
        /\ err' = "None" => ret' = Figure(last', filtered_df)]_vars

\* the day-of-week chart of a filtered view, which adds columns to its copy
C27_Witness ==
    /\ Alive /\ last = "create_day_of_week_chart" /\ ~AllUnset
    /\ filtered_df # <<>>
    /\ DOMAIN ret.data # {}
    /\ \A i \in 1..Len(filtered_df) :
          "day_num" \notin DOMAIN filtered_df[i]

(***************************************************************************)
(* C28  The KPIs of every Filtered View satisfy 0 <= on_time_rate <= 100,  *)
(* 0 <= late_deliveries <= total_orders and on-time count +                *)
(* late_deliveries <= total_orders.                                        *)
(***************************************************************************)
C28_KpiRanges ==
    Computed =>
        /\ ret.on_time_rate.den > 0
        /\ 0 <= ret.on_time_rate.num
        /\ ret.on_time_rate.num <= 100 * ret.on_time_rate.den
        /\ 0 <= ret.late_deliveries
        /\ ret.late_deliveries <= ret.total_orders
        /\ ret.on_time_rate.num * ret.total_orders
              + 100 * ret.on_time_rate.den * ret.late_deliveries
                 <= 100 * ret.on_time_rate.den * ret.total_orders

\* a view with a late order and an order that is neither late nor on time
C28_Witness ==
    /\ Computed
    /\ ret.late_deliveries > 0
    /\ \E i \in 1..Len(filtered_df) :
          filtered_df[i].delivery_status \notin {OnTime, Late}
    /\ CountStatus(filtered_df, OnTime) + ret.late_deliveries
          < ret.total_orders

(***************************************************************************)
(* C29  create_regional_radar_chart gives every region of a non-empty      *)
(* Filtered View a normalized value between 0 and 100 for each of the five *)
(* metrics.                                                                *)
(***************************************************************************)
C29_RadarNormalized ==
    (last = "create_regional_radar_chart" /\ filtered_df # <<>>) =>
        /\ err = "None"
        /\ ret.tag = "figure"
        /\ \A r \in {filtered_df[i].customer_region :
                        i \in 1..Len(filtered_df)} :
              /\ r \in DOMAIN ret.data
              /\ \A col \in Range(RadarMetrics) :
                    /\ 0 <= ret.data[r][col].num
                    /\ ret.data[r][col].num <= 100 * ret.data[r][col].den

\* the sales of the four weeks around week i of a figure, missing weeks left out
Around(data, i) ==
    [j \in {i - 2, i - 1, i, i + 1} \cap (1..Len(data)) |->
        data[j].sales_per_order.num]

(***************************************************************************)
(* C30  In create_trend_decomposition_chart sales = trend + seasonal +     *)
(* residual for every week, trend is the centered 4-week rolling mean of   *)
(* the weekly sales and the residual is 0 for every week.                  *)
(***************************************************************************)
C30_TrendDecomposition ==
    (Alive /\ last = "create_trend_decomposition_chart") =>
        \A i \in 1..Len(ret.data) :
            LET week == ret.data[i]
                near == Around(ret.data, i)
                total == IF i - 2 \in DOMAIN near THEN near[i - 2] ELSE 0
                second == IF i - 1 \in DOMAIN near THEN near[i - 1] ELSE 0
                fourth == IF i + 1 \in DOMAIN near THEN near[i + 1] ELSE 0
            IN /\ week.sales_per_order
                    = Plus(Plus(week.trend, week.seasonal), week.residual)
               /\ week.trend
                    = Rat(total + second + near[i] + fourth,
                          Cardinality(DOMAIN near))
               /\ week.residual = Zero

\* weekly sales that move away from their trend
C30_Witness ==
    /\ Alive /\ last = "create_trend_decomposition_chart"
    /\ Len(ret.data) >= 2
    /\ \E i \in 1..Len(ret.data) : ret.data[i].seasonal # Zero
    /\ \E i \in 1..Len(ret.data) : ret.data[i].trend.den > 1

====
